---- MODULE Spec2Model ----
(***************************************************************************)
(* Library Tracker: the Library aggregate (src/library.py), its items      *)
(* (src/books/book.py, src/books/ebook.py) and its patrons (src/user.py).  *)
(*                                                                         *)
(* Money is counted in cents: 0.50 is 50, 0.25 is 25, 5.0 is 500.          *)
(* Time is counted in whole days, as timedelta.days reports it.            *)
(***************************************************************************)
EXTENDS Integers, Sequences, FiniteSets, TLC

VARIABLES books, users, borrowed_records, now, call, result

vars == <<books, users, borrowed_records, now, call, result>>

(***************************************************************************)
(* Bounds of the model.                                                    *)
(***************************************************************************)
MaxDay == 15
MaxFineDay == 30
MaxFine == 500
MaxRecords == 2
NumLimitBooks == 6
MaxGraceDay == 36
MaxLateDays == 60
NumPremiumBooks == 11
MaxRows == 3

BookIds == {1, 2}
UserIds == {1, 2}

\* The items and patrons the caller constructs and hands to the Library, in
\* this order; the last of each repeats an id that is already present.
BookScript ==
    << [book_id |-> 1, kind |-> "Book"], [book_id |-> 2, kind |-> "EBook"],
       [book_id |-> 1, kind |-> "EBook"] >>
UserScript ==
    << [user_id |-> 1, level |-> "Standard"], [user_id |-> 2, level |-> "Silver"],
       [user_id |-> 1, level |-> "Silver"] >>
DaySteps == {15}
Amounts == {-100, 0, 100, 500}
LimitAmounts == {500}
StandardAmounts == {100, 500}
PremiumAmounts == {499, 500}
HoldIds == {1, 2, 3}
\* values handed to the book_id setter, tagged with their Python type; a
\* bool is an int to isinstance, True being 1 and False 0
IdValues ==
    {[type |-> "int", val |-> v] : v \in {-1, 0, 2, 3}}
        \cup {[type |-> "float", val |-> 2], [type |-> "str", val |-> 2],
              [type |-> "bool", val |-> 1], [type |-> "bool", val |-> 0]}
GenreInputs == {"Fiction", "Science", "General", "Romance", "fiction", ""}
Accessors ==
    {"Library.books", "Library.users", "Library.get_user_borrowed_books",
     "User.get_borrowed_books"}
Mutations == {"append", "remove", "clear"}
BookKinds == {"Book", "EBook"}
PremiumLevels == {"Silver", "Gold", "Platinum"}

\* Python's None, for a holder id or a checkout day that is not set.
None == -1

(***************************************************************************)
(* Python list helpers.                                                    *)
(***************************************************************************)
\* x in lst
In(x, lst) == \E k \in 1..Len(lst) : lst[k] = x

\* index of the first occurrence of x in lst, 0 when absent
IndexOf(x, lst) ==
    IF In(x, lst) THEN CHOOSE k \in 1..Len(lst) :
                           lst[k] = x /\ \A j \in 1..(k - 1) : lst[j] # x
    ELSE 0

\* lst.remove(x): drops the first occurrence only
ListRemove(lst, x) ==
    LET k == IndexOf(x, lst)
    IN  IF k = 0 THEN lst
        ELSE [j \in 1..(Len(lst) - 1) |-> IF j < k THEN lst[j] ELSE lst[j + 1]]

\* number of occurrences of x in lst
Count(x, lst) == Cardinality({k \in 1..Len(lst) : lst[k] = x})

(***************************************************************************)
(* Items: Book and EBook.                                                  *)
(***************************************************************************)
\* Book.__init__ / EBook.__init__
NewBook(book_id, kind) ==
    [book_id |-> book_id, kind |-> kind, genre |-> "General",
     available |-> TRUE, borrowed_by |-> None, borrowed_date |-> None]

\* the book_id setter without the test for a positive value
set_book_id_AnyInt(b, value) ==
    IF value.type \in {"int", "bool"}
    THEN [b EXCEPT !.book_id = value.val]
    ELSE b

\* the book_id setter: isinstance(value, int) and value > 0
set_book_id(b, value) ==
    IF value.type \in {"int", "bool"} /\ value.val > 0
    THEN [b EXCEPT !.book_id = value.val]
    ELSE b

\* the list valid_genres of Book.set_genre
valid_genres ==
    {"Fiction", "Non-Fiction", "Science", "History", "Programming", "General"}

\* Book.set_genre
set_genre(b, genre) ==
    IF genre \in valid_genres THEN [b EXCEPT !.genre = genre] ELSE b

\* Book.is_available
is_available(b) == b.available

\* Book.borrow with the holder assigned before the availability test
BookBorrow_AssignFirst(b, user_id, t) ==
    IF b.available
    THEN <<TRUE, [b EXCEPT !.available = FALSE, !.borrowed_by = user_id,
                           !.borrowed_date = t]>>
    ELSE <<FALSE, [b EXCEPT !.borrowed_by = user_id]>>

\* Book.borrow without the availability test
BookBorrow_NoCheck(b, user_id, t) ==
    <<TRUE, [b EXCEPT !.available = FALSE, !.borrowed_by = user_id,
                      !.borrowed_date = t]>>

\* Book.borrow that records the checkout day but not the holder
BookBorrow_NoHolder(b, user_id, t) ==
    IF b.available
    THEN <<TRUE, [b EXCEPT !.available = FALSE, !.borrowed_date = t]>>
    ELSE <<FALSE, b>>

\* Book.borrow: the pair <<return value, item after the call>>
BookBorrow(b, user_id, t) ==
    IF b.available
    THEN <<TRUE, [b EXCEPT !.available = FALSE, !.borrowed_by = user_id,
                           !.borrowed_date = t]>>
    ELSE <<FALSE, b>>

\* Book.return_book that leaves the holder id in place
BookReturn_KeepHolder(b, t) ==
    IF ~b.available /\ b.borrowed_date # None
    THEN <<t - b.borrowed_date,
           [b EXCEPT !.available = TRUE, !.borrowed_date = None]>>
    ELSE <<0, b>>

\* Book.return_book that counts the checkout day and the return day both
BookReturn_InclusiveDays(b, t) ==
    IF ~b.available /\ b.borrowed_date # None
    THEN <<t - b.borrowed_date + 1,
           [b EXCEPT !.available = TRUE, !.borrowed_by = None,
                     !.borrowed_date = None]>>
    ELSE <<0, b>>

\* Book.return_book: the pair <<days borrowed, item after the call>>
BookReturn(b, t) ==
    IF ~b.available /\ b.borrowed_date # None
    THEN <<t - b.borrowed_date,
           [b EXCEPT !.available = TRUE, !.borrowed_by = None,
                     !.borrowed_date = None]>>
    ELSE <<0, b>>

\* calculate_late_fee that halves the days of an EBook in whole numbers
calculate_late_fee_HalfDays(b, days_late) ==
    IF b.kind = "EBook" THEN (days_late \div 2) * 50 ELSE days_late * 50

\* calculate_late_fee without the override of EBook
calculate_late_fee_SameRate(b, days_late) == days_late * 50

\* Book.calculate_late_fee / EBook.calculate_late_fee, in cents
calculate_late_fee(b, days_late) ==
    IF b.kind = "EBook" THEN days_late * 25 ELSE days_late * 50

(***************************************************************************)
(* Patrons: User and PremiumUser.                                          *)
(***************************************************************************)
\* PremiumUser._calculate_bonus_days
calculate_bonus_days(level) ==
    CASE level = "Silver" -> 7
      [] level = "Gold" -> 14
      [] level = "Platinum" -> 21
      [] OTHER -> 0

\* User.__init__ / PremiumUser.__init__; level "Standard" is a plain User
NewUser(user_id, level) ==
    [user_id |-> user_id, premium |-> (level # "Standard"),
     premium_level |-> level, bonus_borrow_days |-> calculate_bonus_days(level),
     borrowed_books |-> <<>>, fine_amount |-> 0]

\* User.can_borrow that does not look at the fine balance
UserCanBorrow_IgnoreFine(u) == Len(u.borrowed_books) < 3

\* User.can_borrow with <= in place of <
UserCanBorrow_Le(u) == Len(u.borrowed_books) <= 3 /\ u.fine_amount = 0

\* User.can_borrow with the default max_books = 3
UserCanBorrow(u) == Len(u.borrowed_books) < 3 /\ u.fine_amount = 0

\* PremiumUser.can_borrow
PremiumMaxBooks(level) ==
    CASE level = "Silver" -> 5
      [] level = "Gold" -> 7
      [] level = "Platinum" -> 10
      [] OTHER -> 3

\* PremiumUser.can_borrow whose fine threshold is inclusive
PremiumCanBorrow_Le(u) ==
    Len(u.borrowed_books) < PremiumMaxBooks(u.premium_level)
        /\ u.fine_amount <= 500

PremiumCanBorrow(u) ==
    Len(u.borrowed_books) < PremiumMaxBooks(u.premium_level)
        /\ u.fine_amount < 500

\* user.can_borrow(), dispatched on the class of the patron
can_borrow(u) == IF u.premium THEN PremiumCanBorrow(u) ELSE UserCanBorrow(u)

\* User.borrow_book that appends without looking for the id
UserBorrowBook_AlwaysAppend(u, book_id) ==
    <<TRUE, [u EXCEPT !.borrowed_books = Append(@, book_id)]>>

\* User.borrow_book that reports success without recording the id
UserBorrowBook_NoAppend(u, book_id) ==
    IF ~In(book_id, u.borrowed_books) THEN <<TRUE, u>> ELSE <<FALSE, u>>

\* User.borrow_book: <<return value, patron after the call>>
UserBorrowBook(u, book_id) ==
    IF ~In(book_id, u.borrowed_books)
    THEN <<TRUE, [u EXCEPT !.borrowed_books = Append(@, book_id)]>>
    ELSE <<FALSE, u>>

\* User.return_book: <<return value, patron after the call>>
UserReturnBook(u, book_id) ==
    IF In(book_id, u.borrowed_books)
    THEN <<TRUE, [u EXCEPT !.borrowed_books = ListRemove(@, book_id)]>>
    ELSE <<FALSE, u>>

\* User.add_fine
add_fine(u, amount) ==
    IF amount > 0 THEN [u EXCEPT !.fine_amount = @ + amount] ELSE u

\* User.pay_fine that refuses a payment of the whole balance
pay_fine_StrictlyBelow(u, amount) ==
    IF amount > 0 /\ amount < u.fine_amount
    THEN <<TRUE, [u EXCEPT !.fine_amount = @ - amount]>>
    ELSE <<FALSE, u>>

\* User.pay_fine without the test against the balance
pay_fine_NoBalanceCheck(u, amount) ==
    IF amount > 0
    THEN <<TRUE, [u EXCEPT !.fine_amount = @ - amount]>>
    ELSE <<FALSE, u>>

\* User.pay_fine: <<return value, patron after the call>>
pay_fine(u, amount) ==
    IF amount > 0 /\ amount <= u.fine_amount
    THEN <<TRUE, [u EXCEPT !.fine_amount = @ - amount]>>
    ELSE <<FALSE, u>>

\* PremiumUser.upgrade_level that keeps the bonus days of the old tier
upgrade_level_StaleBonus(u) ==
    LET new == CASE u.premium_level = "Silver" -> "Gold"
                 [] u.premium_level = "Gold" -> "Platinum"
                 [] u.premium_level = "Platinum" -> "Platinum"
                 [] OTHER -> u.premium_level
    IN  <<new # u.premium_level, [u EXCEPT !.premium_level = new]>>

\* PremiumUser.upgrade_level: <<return value, patron after the call>>
upgrade_level(u) ==
    LET new == CASE u.premium_level = "Silver" -> "Gold"
                 [] u.premium_level = "Gold" -> "Platinum"
                 [] u.premium_level = "Platinum" -> "Platinum"
                 [] OTHER -> u.premium_level
    IN  <<new # u.premium_level,
          [u EXCEPT !.premium_level = new,
                    !.bonus_borrow_days = calculate_bonus_days(new)]>>

(***************************************************************************)
(* Library.                                                                *)
(***************************************************************************)
\* Library.find_book_by_id that keeps the last match of the scan
find_book_by_id_Last(bs, book_id) ==
    IF \E k \in 1..Len(bs) : bs[k].book_id = book_id
    THEN CHOOSE k \in 1..Len(bs) :
             bs[k].book_id = book_id
                 /\ \A j \in (k + 1)..Len(bs) : bs[j].book_id # book_id
    ELSE 0

\* Library.find_book_by_id: index of the first item with that id, 0 for None
find_book_by_id(bs, book_id) ==
    IF \E k \in 1..Len(bs) : bs[k].book_id = book_id
    THEN CHOOSE k \in 1..Len(bs) :
             bs[k].book_id = book_id
                 /\ \A j \in 1..(k - 1) : bs[j].book_id # book_id
    ELSE 0

\* Library.find_user_by_id whose scan starts at the second patron
find_user_by_id_SkipFirst(us, user_id) ==
    IF \E k \in 2..Len(us) : us[k].user_id = user_id
    THEN CHOOSE k \in 2..Len(us) :
             us[k].user_id = user_id
                 /\ \A j \in 2..(k - 1) : us[j].user_id # user_id
    ELSE 0

\* Library.find_user_by_id: index of the first patron with that id, 0 for None
find_user_by_id(us, user_id) ==
    IF \E k \in 1..Len(us) : us[k].user_id = user_id
    THEN CHOOSE k \in 1..Len(us) :
             us[k].user_id = user_id
                 /\ \A j \in 1..(k - 1) : us[j].user_id # user_id
    ELSE 0

\* Library.get_user_borrowed_books: __borrowed_records.get(user_id, [])
get_user_borrowed_books(recs, user_id) ==
    IF user_id \in DOMAIN recs THEN recs[user_id] ELSE <<>>

Call(op, user_id, book_id, amount) ==
    [op |-> op, user_id |-> user_id, book_id |-> book_id, amount |-> amount]

BoolStr(b) == IF b THEN "True" ELSE "False"

\* Library.__init__
Init ==
    /\ books = <<>>
    /\ users = <<>>
    /\ borrowed_records = <<>>
    /\ now = 0
    /\ call = Call("init", None, None, 0)
    /\ result = "None"

\* Library.add_book with a freshly constructed Book or EBook
LibAddBook(book_id, kind) ==
    /\ books' = Append(books, NewBook(book_id, kind))
    /\ call' = Call("add_book", None, book_id, 0)
    /\ result' = "True"
    /\ UNCHANGED <<users, borrowed_records, now>>

\* Library.register_user with a freshly constructed User or PremiumUser
LibRegisterUser(user_id, level) ==
    /\ users' = Append(users, NewUser(user_id, level))
    /\ borrowed_records' =
           [k \in DOMAIN borrowed_records \cup {user_id} |->
               IF k = user_id THEN <<>> ELSE borrowed_records[k]]
    /\ call' = Call("register_user", user_id, None, 0)
    /\ result' = "True"
    /\ UNCHANGED <<books, now>>

\* the conditions under which Library.borrow_book reaches its "return True"
BorrowSucceeds(user_id, book_id) ==
    LET u == find_user_by_id(users, user_id)
        b == find_book_by_id(books, book_id)
    IN  /\ u # 0
        /\ b # 0
        /\ can_borrow(users[u])
        /\ books[b].available

\* Library.borrow_book
LibBorrowBook(user_id, book_id) ==
    LET u == find_user_by_id(users, user_id)
        b == find_book_by_id(books, book_id)
    IN  /\ call' = Call("borrow_book", user_id, book_id, 0)
        /\ UNCHANGED now
        /\ IF u = 0 \/ b = 0
           THEN /\ result' = "False"
                /\ UNCHANGED <<books, users, borrowed_records>>
           ELSE IF ~can_borrow(users[u])
           THEN /\ result' = "False"
                /\ UNCHANGED <<books, users, borrowed_records>>
           ELSE LET br == BookBorrow(books[b], user_id, now)
                IN  /\ books' = [books EXCEPT ![b] = br[2]]
                    /\ IF br[1]
                       THEN /\ users' = [users EXCEPT
                                   ![u] = UserBorrowBook(@, book_id)[2]]
                            /\ borrowed_records' = [borrowed_records EXCEPT
                                   ![user_id] = Append(@, book_id)]
                            /\ result' = "True"
                       ELSE /\ result' = "False"
                            /\ UNCHANGED <<users, borrowed_records>>

\* Library.return_book
LibReturnBook(user_id, book_id) ==
    LET u == find_user_by_id(users, user_id)
        b == find_book_by_id(books, book_id)
    IN  /\ call' = Call("return_book", user_id, book_id, 0)
        /\ UNCHANGED now
        /\ IF u = 0 \/ b = 0
           THEN /\ result' = "False"
                /\ UNCHANGED <<books, users, borrowed_records>>
           ELSE LET rb == BookReturn(books[b], now)
                    days_borrowed == rb[1]
                    u1 == UserReturnBook(users[u], book_id)[2]
                    borrow_period ==
                        IF u1.premium THEN 14 + u1.bonus_borrow_days ELSE 14
                    u2 == IF days_borrowed > borrow_period
                          THEN add_fine(u1, calculate_late_fee(books[b],
                                          days_borrowed - borrow_period))
                          ELSE u1
                IN  /\ books' = [books EXCEPT ![b] = rb[2]]
                    /\ users' = [users EXCEPT ![u] = u2]
                    /\ borrowed_records' =
                         IF In(book_id,
                               get_user_borrowed_books(borrowed_records, user_id))
                         THEN [borrowed_records EXCEPT
                                  ![user_id] = ListRemove(@, book_id)]
                         ELSE borrowed_records
                    /\ result' = "True"

\* User.add_fine called on the k-th registered patron
UserAddFine(k, amount) ==
    /\ k \in 1..Len(users)
    /\ users' = [users EXCEPT ![k] = add_fine(@, amount)]
    /\ call' = Call("add_fine", users[k].user_id, None, amount)
    /\ result' = "None"
    /\ UNCHANGED <<books, borrowed_records, now>>

\* User.pay_fine called on the k-th registered patron
UserPayFine(k, amount) ==
    /\ k \in 1..Len(users)
    /\ LET r == pay_fine(users[k], amount)
       IN  /\ users' = [users EXCEPT ![k] = r[2]]
           /\ result' = BoolStr(r[1])
    /\ call' = Call("pay_fine", users[k].user_id, None, amount)
    /\ UNCHANGED <<books, borrowed_records, now>>

\* PremiumUser.upgrade_level called on the k-th registered patron
UserUpgradeLevel(k) ==
    /\ k \in 1..Len(users)
    /\ users[k].premium
    /\ LET r == upgrade_level(users[k])
       IN  /\ users' = [users EXCEPT ![k] = r[2]]
           /\ result' = BoolStr(r[1])
    /\ call' = Call("upgrade_level", users[k].user_id, None, 0)
    /\ UNCHANGED <<books, borrowed_records, now>>

\* user.can_borrow() called on the k-th registered patron
UserCanBorrowCall(k) ==
    /\ k \in 1..Len(users)
    /\ call' = Call("can_borrow", users[k].user_id, None, 0)
    /\ result' = BoolStr(can_borrow(users[k]))
    /\ UNCHANGED <<books, users, borrowed_records, now>>

\* datetime.now() advances between calls
Tick(d) ==
    /\ now' = now + d
    /\ UNCHANGED <<books, users, borrowed_records, call, result>>

\* The cross-reference list of a patron grows only up to MaxRecords entries.
RecordsBounded(user_id, book_id) ==
    BorrowSucceeds(user_id, book_id) =>
        Len(borrowed_records[user_id]) < MaxRecords

\* A fine balance grows through add_fine only up to MaxFine.
FineBounded(k, amount) ==
    k \in 1..Len(users) /\ users[k].fine_amount + amount <= MaxFine

Next ==
    \/ /\ Len(books) < Len(BookScript)
       /\ LET nb == BookScript[Len(books) + 1]
          IN  LibAddBook(nb.book_id, nb.kind)
    \/ /\ Len(users) < Len(UserScript)
       /\ LET nu == UserScript[Len(users) + 1]
          IN  LibRegisterUser(nu.user_id, nu.level)
    \/ \E uid \in UserIds, bid \in BookIds :
           RecordsBounded(uid, bid) /\ LibBorrowBook(uid, bid)
    \/ \E uid \in UserIds, bid \in BookIds : LibReturnBook(uid, bid)
    \/ \E d \in DaySteps : now + d <= MaxDay /\ Tick(d)

Spec == Init /\ [][Next]_vars

(***************************************************************************)
(* borrow_book and return_book as functions of the Library's state, for    *)
(* properties about one call followed at once by another.                  *)
(***************************************************************************)
\* the items, the patrons and the cross-reference map of the Library
LibState ==
    [books |-> books, users |-> users, borrowed_records |-> borrowed_records]

\* Library.borrow_book on the state st at time t: return value and state
borrow_book(st, user_id, book_id, t) ==
    LET u == find_user_by_id(st.users, user_id)
        b == find_book_by_id(st.books, book_id)
    IN  IF u = 0 \/ b = 0 THEN [ok |-> FALSE, st |-> st]
        ELSE IF ~can_borrow(st.users[u]) THEN [ok |-> FALSE, st |-> st]
        ELSE LET br == BookBorrow(st.books[b], user_id, t)
             IN  IF br[1]
                 THEN [ok |-> TRUE,
                       st |-> [books |-> [st.books EXCEPT ![b] = br[2]],
                               users |-> [st.users EXCEPT
                                   ![u] = UserBorrowBook(@, book_id)[2]],
                               borrowed_records |->
                                   [st.borrowed_records EXCEPT
                                       ![user_id] = Append(@, book_id)]]]
                 ELSE [ok |-> FALSE,
                       st |-> [st EXCEPT !.books = [@ EXCEPT ![b] = br[2]]]]

\* Library.return_book on the state st at time t: return value and state
return_book(st, user_id, book_id, t) ==
    LET u == find_user_by_id(st.users, user_id)
        b == find_book_by_id(st.books, book_id)
    IN  IF u = 0 \/ b = 0 THEN [ok |-> FALSE, st |-> st]
        ELSE LET rb == BookReturn(st.books[b], t)
                 u1 == UserReturnBook(st.users[u], book_id)[2]
                 borrow_period ==
                     IF u1.premium THEN 14 + u1.bonus_borrow_days ELSE 14
                 u2 == IF rb[1] > borrow_period
                       THEN add_fine(u1, calculate_late_fee(st.books[b],
                                       rb[1] - borrow_period))
                       ELSE u1
             IN  [ok |-> TRUE,
                  st |-> [books |-> [st.books EXCEPT ![b] = rb[2]],
                          users |-> [st.users EXCEPT ![u] = u2],
                          borrowed_records |->
                              IF In(book_id, get_user_borrowed_books(
                                                 st.borrowed_records, user_id))
                              THEN [st.borrowed_records EXCEPT
                                       ![user_id] = ListRemove(@, book_id)]
                              ELSE st.borrowed_records]]

(***************************************************************************)
(* A stocked library: one patron, standard or Silver, is registered and    *)
(* NumLimitBooks items were added; nothing is on loan yet.                 *)
(***************************************************************************)
LimitBookIds == 1..NumLimitBooks

InitLimit ==
    /\ books = [k \in LimitBookIds |->
                   NewBook(k, IF k % 2 = 1 THEN "Book" ELSE "EBook")]
    /\ \E level \in {"Standard", "Silver"} : users = <<NewUser(1, level)>>
    /\ borrowed_records = [k \in {1} |-> <<>>]
    /\ now = 0
    /\ call = Call("init", None, None, 0)
    /\ result = "None"

NextLimit ==
    \/ \E bid \in LimitBookIds : LibBorrowBook(1, bid)
    \/ \E bid \in LimitBookIds : LibReturnBook(1, bid)
    \/ \E k \in 1..Len(users), a \in LimitAmounts :
           FineBounded(k, a) /\ UserAddFine(k, a)
    \/ \E k \in 1..Len(users), a \in LimitAmounts : UserPayFine(k, a)
    \/ \E k \in 1..Len(users) : UserUpgradeLevel(k)

SpecLimit == InitLimit /\ [][NextLimit]_vars

(***************************************************************************)
(* A stocked library for the fine operations: a standard and a Silver      *)
(* patron and one physical book; nothing is on loan yet.                   *)
(***************************************************************************)
InitFine ==
    /\ books = <<NewBook(1, "Book")>>
    /\ users = <<NewUser(1, "Standard"), NewUser(2, "Silver")>>
    /\ borrowed_records = [k \in {1, 2} |-> <<>>]
    /\ now = 0
    /\ call = Call("init", None, None, 0)
    /\ result = "None"

NextFine ==
    \/ \E uid \in UserIds : RecordsBounded(uid, 1) /\ LibBorrowBook(uid, 1)
    \/ \E uid \in UserIds : LibReturnBook(uid, 1)
    \/ \E k \in 1..Len(users), a \in Amounts :
           FineBounded(k, a) /\ UserAddFine(k, a)
    \/ \E k \in 1..Len(users), a \in Amounts : UserPayFine(k, a)
    \/ \E d \in DaySteps : now + d <= MaxFineDay /\ Tick(d)

SpecFine == InitFine /\ [][NextFine]_vars

(***************************************************************************)
(* One patron of any kind and one item of either kind, with the clock      *)
(* advancing a day at a time.                                              *)
(***************************************************************************)
InitGrace ==
    /\ \E kind \in BookKinds : books = <<NewBook(1, kind)>>
    /\ \E level \in {"Standard"} \cup PremiumLevels :
           users = <<NewUser(1, level)>>
    /\ borrowed_records = [k \in {1} |-> <<>>]
    /\ now = 0
    /\ call = Call("init", None, None, 0)
    /\ result = "None"

NextGrace ==
    \/ LibBorrowBook(1, 1)
    \/ LibReturnBook(1, 1)
    \/ now + 1 <= MaxGraceDay /\ Tick(1)

SpecGrace == InitGrace /\ [][NextGrace]_vars

(***************************************************************************)
(* A stocked library with one standard patron, whose eligibility is asked  *)
(* for directly and through borrow_book at every held count and balance.   *)
(***************************************************************************)
InitStandard ==
    /\ books = [k \in LimitBookIds |->
                   NewBook(k, IF k % 2 = 1 THEN "Book" ELSE "EBook")]
    /\ users = <<NewUser(1, "Standard")>>
    /\ borrowed_records = [k \in {1} |-> <<>>]
    /\ now = 0
    /\ call = Call("init", None, None, 0)
    /\ result = "None"

NextStandard ==
    \/ \E bid \in LimitBookIds : LibBorrowBook(1, bid)
    \/ \E bid \in LimitBookIds : LibReturnBook(1, bid)
    \/ \E a \in StandardAmounts : FineBounded(1, a) /\ UserAddFine(1, a)
    \/ \E a \in StandardAmounts : UserPayFine(1, a)
    \/ UserCanBorrowCall(1)

SpecStandard == InitStandard /\ [][NextStandard]_vars

(***************************************************************************)
(* A stocked library with one premium patron of any tier, who borrows the  *)
(* items in the order of their ids and returns the one borrowed last, so   *)
(* that every held count up to the limit of Platinum is reached.           *)
(***************************************************************************)
PremiumBookIds == 1..NumPremiumBooks

InitPremium ==
    /\ books = [k \in PremiumBookIds |->
                   NewBook(k, IF k % 2 = 1 THEN "Book" ELSE "EBook")]
    /\ \E level \in PremiumLevels : users = <<NewUser(1, level)>>
    /\ borrowed_records = [k \in {1} |-> <<>>]
    /\ now = 0
    /\ call = Call("init", None, None, 0)
    /\ result = "None"

\* the ids the patron asks for: an item already held or the first free one
InBorrowOrder(bid) == bid <= Len(users[1].borrowed_books) + 1

\* the ids the patron returns: the item borrowed last or the first free one
InReturnOrder(bid) ==
    bid \in {Len(users[1].borrowed_books), Len(users[1].borrowed_books) + 1}

NextPremium ==
    \/ \E bid \in PremiumBookIds : InBorrowOrder(bid) /\ LibBorrowBook(1, bid)
    \/ \E bid \in PremiumBookIds : InReturnOrder(bid) /\ LibReturnBook(1, bid)
    \/ \E a \in PremiumAmounts : FineBounded(1, a) /\ UserAddFine(1, a)
    \/ \E a \in PremiumAmounts : UserPayFine(1, a)
    \/ UserUpgradeLevel(1)
    \/ UserCanBorrowCall(1)

SpecPremium == InitPremium /\ [][NextPremium]_vars

(***************************************************************************)
(* One item and one patron used as plain objects: the setters of the item  *)
(* and the fine and hold methods of the patron, called directly.           *)
(***************************************************************************)
\* book.book_id = value on the k-th item
BookSetBookId(k, value) ==
    /\ k \in 1..Len(books)
    /\ books' = [books EXCEPT ![k] = set_book_id(@, value)]
    /\ call' = Call("Book.book_id", None, books[k].book_id, value)
    /\ result' = "None"
    /\ UNCHANGED <<users, borrowed_records, now>>

\* book.set_genre(genre) on the k-th item
BookSetGenre(k, genre) ==
    /\ k \in 1..Len(books)
    /\ books' = [books EXCEPT ![k] = set_genre(@, genre)]
    /\ call' = Call("Book.set_genre", None, books[k].book_id, genre)
    /\ result' = "None"
    /\ UNCHANGED <<users, borrowed_records, now>>

\* user.borrow_book(book_id) on the k-th patron
UserBorrowBookCall(k, book_id) ==
    /\ k \in 1..Len(users)
    /\ LET r == UserBorrowBook(users[k], book_id)
       IN  /\ users' = [users EXCEPT ![k] = r[2]]
           /\ result' = BoolStr(r[1])
    /\ call' = Call("User.borrow_book", users[k].user_id, book_id, 0)
    /\ UNCHANGED <<books, borrowed_records, now>>

\* user.return_book(book_id) on the k-th patron
UserReturnBookCall(k, book_id) ==
    /\ k \in 1..Len(users)
    /\ LET r == UserReturnBook(users[k], book_id)
       IN  /\ users' = [users EXCEPT ![k] = r[2]]
           /\ result' = BoolStr(r[1])
    /\ call' = Call("User.return_book", users[k].user_id, book_id, 0)
    /\ UNCHANGED <<books, borrowed_records, now>>

InitObject ==
    /\ \E kind \in BookKinds : books = <<NewBook(1, kind)>>
    /\ \E level \in {"Standard", "Silver"} : users = <<NewUser(1, level)>>
    /\ borrowed_records = <<>>
    /\ now = 0
    /\ call = Call("init", None, None, 0)
    /\ result = "None"

NextObject ==
    \/ \E v \in IdValues : BookSetBookId(1, v)
    \/ \E g \in GenreInputs : BookSetGenre(1, g)
    \/ \E a \in Amounts : FineBounded(1, a) /\ UserAddFine(1, a)
    \/ \E a \in Amounts : UserPayFine(1, a)
    \/ \E bid \in HoldIds : UserBorrowBookCall(1, bid)
    \/ \E bid \in HoldIds : UserReturnBookCall(1, bid)

SpecObject == InitObject /\ [][NextObject]_vars

(***************************************************************************)
(* A caller changes a collection it obtained from an accessor.  A copy is  *)
(* the caller's own; a list object the Library keeps is changed in place.  *)
(***************************************************************************)
\* the list object an accessor returns: shared is TRUE when it is the list
\* stored under key in __borrowed_records, FALSE when it is a fresh list
\* (list.copy(), or the default [] of dict.get)
Export(accessor, user_id) ==
    IF accessor = "Library.get_user_borrowed_books"
           /\ user_id \in DOMAIN borrowed_records
    THEN [shared |-> TRUE, key |-> user_id]
    ELSE [shared |-> FALSE, key |-> None]

\* lst.append(1), lst.pop(0) on a non-empty list, lst.clear()
Mutate(lst, m) ==
    CASE m = "append" -> Append(lst, 1)
      [] m = "remove" -> IF Len(lst) > 0 THEN Tail(lst) ELSE lst
      [] m = "clear" -> <<>>

\* the caller obtains a collection from the accessor and changes it
CallerMutates(accessor, user_id, m) ==
    /\ LET e == Export(accessor, user_id)
       IN  borrowed_records' =
               IF e.shared
               THEN [borrowed_records EXCEPT ![e.key] = Mutate(@, m)]
               ELSE borrowed_records
    /\ call' = Call(accessor, user_id, None, m)
    /\ result' = "None"
    /\ UNCHANGED <<books, users, now>>

\* the caller appends only while the list has fewer than MaxRecords entries
AppendBounded(user_id, m) ==
    (m = "append" /\ user_id \in DOMAIN borrowed_records) =>
        Len(borrowed_records[user_id]) < MaxRecords

NextSnapshot ==
    \/ \E uid \in UserIds : RecordsBounded(uid, 1) /\ LibBorrowBook(uid, 1)
    \/ \E uid \in UserIds : LibReturnBook(uid, 1)
    \/ \E acc \in Accessors, uid \in UserIds \cup {3}, m \in Mutations :
           AppendBounded(uid, m) /\ CallerMutates(acc, uid, m)

SpecSnapshot == InitFine /\ [][NextSnapshot]_vars

(***************************************************************************)
(* load_books_from_csv.  A row is what csv.DictReader yields: each of the  *)
(* six columns holds a string, or None when the line has fewer fields than *)
(* the header.  A string is modelled by what int() and strip() make of it. *)
(***************************************************************************)
\* a string int() converts to v
Num(v) == [k |-> "num", v |-> v]

\* a string with letters: int() raises ValueError, strip() is not empty
Text == [k |-> "text", v |-> 0]

\* an empty or all-blank string: int() raises ValueError, strip() is ''
Blank == [k |-> "blank", v |-> 0]

\* None, the restval of csv.DictReader for a field the line does not have
Absent == [k |-> "absent", v |-> 0]

CsvRow(id, title, author, year, genre, available) ==
    [id |-> id, title |-> title, author |-> author, year |-> year,
     genre |-> genre, available |-> available]

\* the lines a file is made of
CsvRows ==
    { CsvRow(Num(1), Text, Text, Num(2000), Text, Text),
      CsvRow(Num(2), Num(1984), Text, Num(1949), Text, Text),
      CsvRow(Num(3), Text, Text, Blank, Text, Text),
      CsvRow(Num(4), Text, Text, Absent, Absent, Absent),
      CsvRow(Text, Text, Text, Num(2000), Text, Text),
      CsvRow(Num(5), Text, Text, Text, Text, Text),
      CsvRow(Num(6), Blank, Text, Num(2000), Text, Text),
      CsvRow(Num(7), Text, Text, Num(999), Text, Text),
      CsvRow(Num(8), Text, Text, Num(2101), Text, Text) }

CsvFiles == UNION {[1..n -> CsvRows] : n \in 0..MaxRows}

\* the exception, if any, that building and validating book_data raises:
\* "TypeError" stands for the TypeError of int(None) and the AttributeError
\* of None.strip() / None.lower(), which the inner try does not catch
RowOutcome(row) ==
    CASE row.id.k = "absent" -> "TypeError"
      [] row.id.k # "num" -> "ValueError"
      [] row.title.k = "absent" -> "TypeError"
      [] row.author.k = "absent" -> "TypeError"
      [] row.year.k = "absent" -> "TypeError"
      [] row.year.k # "num" -> "ValueError"
      [] row.genre.k = "absent" -> "TypeError"
      [] row.available.k = "absent" -> "TypeError"
      [] row.title.k = "blank" -> "ValueError"
      [] row.year.v < 1000 \/ row.year.v > 2100 -> "ValueError"
      [] OTHER -> "ok"

\* the dictionary appended to books_data, reduced to its numeric fields
BookData(row) == [id |-> row.id.v, year |-> row.year.v]

RECURSIVE LoadRows(_, _, _)
\* the for loop over the reader from row i on, books_data being acc
LoadRows(rows, i, acc) ==
    IF i > Len(rows) THEN acc
    ELSE LET o == RowOutcome(rows[i])
         IN  IF o = "ok" THEN LoadRows(rows, i + 1, Append(acc, BookData(rows[i])))
             ELSE IF o = "ValueError" THEN LoadRows(rows, i + 1, acc)
             ELSE <<>>

\* load_books_from_csv on an existing file with those rows
load_books_from_csv(rows) == LoadRows(rows, 1, <<>>)

LoadBooksFromCsv(rows) ==
    /\ call' = Call("load_books_from_csv", None, None, rows)
    /\ result' = load_books_from_csv(rows)
    /\ UNCHANGED <<books, users, borrowed_records, now>>

NextCsv == \E rows \in CsvFiles : LoadBooksFromCsv(rows)

SpecCsv == Init /\ [][NextCsv]_vars

(***************************************************************************)
(* Two threads, each running Library.borrow_book once for its own patron   *)
(* and the same item, interleaved statement by statement; the code takes   *)
(* no lock.  Here call[t] is the call of thread t with the statement it is *)
(* at (pc), and result[t] its return value.                                *)
(***************************************************************************)
Threads == {1, 2}

ThreadCall(user_id, book_id, pc) ==
    [op |-> "borrow_book", user_id |-> user_id, book_id |-> book_id,
     amount |-> 0, pc |-> pc]

InitThreads ==
    /\ \E kind \in BookKinds : books = <<NewBook(1, kind)>>
    /\ \E l1 \in {"Standard", "Gold"}, l2 \in {"Standard", "Silver"} :
           users = <<NewUser(1, l1), NewUser(2, l2)>>
    /\ borrowed_records = [k \in {1, 2} |-> <<>>]
    /\ now = 0
    /\ call = [t \in Threads |-> ThreadCall(t, 1, "lookup")]
    /\ result = [t \in Threads |-> "None"]

\* thread t goes on to the statement pc
Goto(t, pc) == call' = [call EXCEPT ![t].pc = pc]

\* thread t returns r
ThreadReturn(t, r) ==
    /\ result' = [result EXCEPT ![t] = BoolStr(r)]
    /\ Goto(t, "done")

ThreadUser(t) == find_user_by_id(users, call[t].user_id)

ThreadBook(t) == find_book_by_id(books, call[t].book_id)

\* find_user_by_id, find_book_by_id and the three early returns
BorrowLookup(t) ==
    /\ call[t].pc = "lookup"
    /\ IF ThreadUser(t) = 0 \/ ThreadBook(t) = 0
       THEN ThreadReturn(t, FALSE)
       ELSE IF ~can_borrow(users[ThreadUser(t)])
       THEN ThreadReturn(t, FALSE)
       ELSE Goto(t, "test") /\ UNCHANGED result
    /\ UNCHANGED <<books, users, borrowed_records, now>>

\* Book.borrow: if self._available
BorrowTest(t) ==
    /\ call[t].pc = "test"
    /\ IF books[ThreadBook(t)].available
       THEN Goto(t, "set_available") /\ UNCHANGED result
       ELSE ThreadReturn(t, FALSE)
    /\ UNCHANGED <<books, users, borrowed_records, now>>

\* Book.borrow: self._available = False
BorrowSetAvailable(t) ==
    /\ call[t].pc = "set_available"
    /\ books' = [books EXCEPT ![ThreadBook(t)].available = FALSE]
    /\ Goto(t, "set_borrowed_by")
    /\ UNCHANGED <<users, borrowed_records, now, result>>

\* Book.borrow: self._borrowed_by = user_id
BorrowSetBorrowedBy(t) ==
    /\ call[t].pc = "set_borrowed_by"
    /\ books' = [books EXCEPT ![ThreadBook(t)].borrowed_by = call[t].user_id]
    /\ Goto(t, "set_borrowed_date")
    /\ UNCHANGED <<users, borrowed_records, now, result>>

\* Book.borrow: self._borrowed_date = datetime.now(); return True
BorrowSetBorrowedDate(t) ==
    /\ call[t].pc = "set_borrowed_date"
    /\ books' = [books EXCEPT ![ThreadBook(t)].borrowed_date = now]
    /\ Goto(t, "user_borrow")
    /\ UNCHANGED <<users, borrowed_records, now, result>>

\* Library.borrow_book: user.borrow_book(book_id)
BorrowUserBorrow(t) ==
    /\ call[t].pc = "user_borrow"
    /\ users' = [users EXCEPT
           ![ThreadUser(t)] = UserBorrowBook(@, call[t].book_id)[2]]
    /\ Goto(t, "record")
    /\ UNCHANGED <<books, borrowed_records, now, result>>

\* Library.borrow_book: the append to __borrowed_records and return True
BorrowRecord(t) ==
    /\ call[t].pc = "record"
    /\ borrowed_records' = [borrowed_records EXCEPT
           ![call[t].user_id] = Append(@, call[t].book_id)]
    /\ ThreadReturn(t, TRUE)
    /\ UNCHANGED <<books, users, now>>

NextThreads ==
    \E t \in Threads :
        \/ BorrowLookup(t)
        \/ BorrowTest(t)
        \/ BorrowSetAvailable(t)
        \/ BorrowSetBorrowedBy(t)
        \/ BorrowSetBorrowedDate(t)
        \/ BorrowUserBorrow(t)
        \/ BorrowRecord(t)

SpecThreads == InitThreads /\ [][NextThreads]_vars

(***************************************************************************)
(* A standard patron who runs up fines through late returns and add_fine   *)
(* and pays them, in part or in full.                                      *)
(***************************************************************************)
BlockBookIds == {1, 2, 3, 4}

InitBlock ==
    /\ books = [k \in BlockBookIds |->
                   NewBook(k, IF k % 2 = 1 THEN "Book" ELSE "EBook")]
    /\ users = <<NewUser(1, "Standard")>>
    /\ borrowed_records = [k \in {1} |-> <<>>]
    /\ now = 0
    /\ call = Call("init", None, None, 0)
    /\ result = "None"

\* the amounts handed to pay_fine: the whole current balance, or 1.00
PayAmounts == {users[1].fine_amount, 100}

NextBlock ==
    \/ \E bid \in BlockBookIds : InBorrowOrder(bid) /\ LibBorrowBook(1, bid)
    \/ \E bid \in BlockBookIds : InReturnOrder(bid) /\ LibReturnBook(1, bid)
    \/ FineBounded(1, 100) /\ UserAddFine(1, 100)
    \/ \E a \in PayAmounts : UserPayFine(1, a)
    \/ \E d \in DaySteps : now + d <= MaxDay /\ Tick(d)

SpecBlock == InitBlock /\ [][NextBlock]_vars

(***************************************************************************)
(* The late-fee functions applied to a physical book and an e-book for     *)
(* every number of days late up to MaxLateDays.                            *)
(***************************************************************************)
\* book.calculate_late_fee(days_late) called on the k-th item
BookCalculateLateFee(k, days_late) ==
    /\ k \in 1..Len(books)
    /\ call' = Call("calculate_late_fee", None, books[k].book_id, days_late)
    /\ result' = calculate_late_fee(books[k], days_late)
    /\ UNCHANGED <<books, users, borrowed_records, now>>

InitFee ==
    /\ books = <<NewBook(1, "Book"), NewBook(2, "EBook")>>
    /\ users = <<>>
    /\ borrowed_records = <<>>
    /\ now = 0
    /\ call = Call("init", None, None, 0)
    /\ result = "None"

NextFee ==
    \E k \in 1..Len(books), d \in 0..MaxLateDays : BookCalculateLateFee(k, d)

SpecFee == InitFee /\ [][NextFee]_vars

(***************************************************************************)
(* Properties.                                                             *)
(***************************************************************************)
\* the patrons (positions in users) whose held-set contains book_id
HoldersOf(book_id) ==
    {k \in 1..Len(users) : In(book_id, users[k].borrowed_books)}

\* the step is a call of Library.borrow_book(user_id, book_id)
BorrowStep(user_id, book_id) ==
    call' = Call("borrow_book", user_id, book_id, 0) /\ now' = now

\* C1: no item is unavailable while more than one patron's held-set
\* contains its id.
C1_SingleHolder ==
    \A b \in 1..Len(books) :
        ~books[b].available => Cardinality(HoldersOf(books[b].book_id)) <= 1

\* C2: every id in a patron's held-set names an item that is unavailable
\* and whose holder id is that patron's id.
C2_NoOrphanedHolds ==
    \A k \in 1..Len(users) :
        \A j \in 1..Len(users[k].borrowed_books) :
            LET b == find_book_by_id(books, users[k].borrowed_books[j])
            IN  /\ b # 0
                /\ ~books[b].available
                /\ books[b].borrowed_by = users[k].user_id

\* C3: for every unavailable item, the patron the Library resolves for the
\* item's holder id is registered and has the item's id in their held-set.
C3_HolderConsistency ==
    \A b \in 1..Len(books) :
        ~books[b].available =>
            LET u == find_user_by_id(users, books[b].borrowed_by)
            IN  u # 0 /\ In(books[b].book_id, users[u].borrowed_books)

\* C3 witness: an item is on loan after a successful borrow_book while
\* another patron keeps a stale hold on some id.
C3_Witness ==
    /\ call.op = "borrow_book"
    /\ result = "True"
    /\ \E b \in 1..Len(books) :
           /\ ~books[b].available
           /\ books[b].book_id = call.book_id
           /\ books[b].borrowed_by = call.user_id
    /\ \E k \in 1..Len(users) :
           /\ users[k].user_id # call.user_id
           /\ Len(users[k].borrowed_books) > 0

\* C4: for every registered patron the cross-reference entry holds exactly
\* the ids of the patron's held-set, each once, and each of those items has
\* the patron as holder.
C4_CrossReference ==
    \A uid \in DOMAIN borrowed_records :
        LET u == find_user_by_id(users, uid)
            recs == borrowed_records[uid]
        IN  /\ u # 0
            /\ \A id \in BookIds :
                   /\ Count(id, recs) = Count(id, users[u].borrowed_books)
                   /\ Count(id, recs) <= 1
            /\ \A j \in 1..Len(recs) :
                   LET b == find_book_by_id(books, recs[j])
                   IN  b # 0 /\ books[b].borrowed_by = uid

\* C5: an item is unavailable iff its holder id is set iff its checkout day
\* is set, and an item that add_book has just stored is available with
\* neither set.
C5_ItemState ==
    /\ \A b \in 1..Len(books) :
           /\ (~books[b].available) <=> (books[b].borrowed_by # None)
           /\ (books[b].borrowed_by # None) <=> (books[b].borrowed_date # None)
    /\ call.op = "add_book" =>
           /\ books[Len(books)].available
           /\ books[Len(books)].borrowed_by = None
           /\ books[Len(books)].borrowed_date = None

\* C5 witness: return_book has just cleared one item while another item is
\* still on loan.
C5_Witness ==
    /\ call.op = "return_book"
    /\ result = "True"
    /\ \E b \in 1..Len(books) :
           books[b].book_id = call.book_id /\ books[b].available
    /\ \E b \in 1..Len(books) :
           ~books[b].available /\ books[b].borrowed_date < now

\* the borrow limit the claim states for each kind of patron
ClaimedLimit(u) ==
    IF ~u.premium THEN 3
    ELSE CASE u.premium_level = "Silver" -> 5
           [] u.premium_level = "Gold" -> 7
           [] u.premium_level = "Platinum" -> 10

C7_FineNonNegative ==
    \A k \in 1..Len(users) : users[k].fine_amount >= 0

\* C7 witness: pay_fine has just refused an amount above a positive balance
\* that a late return produced.
C7_Witness ==
    /\ call.op = "pay_fine"
    /\ result = "False"
    /\ \E k \in 1..Len(users) :
           /\ users[k].user_id = call.user_id
           /\ users[k].fine_amount > 0
           /\ users[k].fine_amount < call.amount
           /\ users[k].fine_amount % 100 # 0

\* C8: a borrow_book call that returns false leaves every item, every
\* patron and the cross-reference map as they were.
C8_FailedBorrowNoChange ==
    [][ \A uid \in UserIds, bid \in BookIds :
            (BorrowStep(uid, bid) /\ result' = "False") =>
                /\ books' = books
                /\ users' = users
                /\ borrowed_records' = borrowed_records ]_vars

\* C8 witness: an eligible registered patron was refused an item on loan to
\* someone else.
C8_Witness ==
    /\ call.op = "borrow_book"
    /\ result = "False"
    /\ LET u == find_user_by_id(users, call.user_id)
           b == find_book_by_id(books, call.book_id)
       IN  /\ u # 0
           /\ b # 0
           /\ can_borrow(users[u])
           /\ ~books[b].available
           /\ books[b].borrowed_by # call.user_id

\* C9: when two distinct eligible registered patrons call borrow_book for
\* one available item one after the other, the first call returns true and
\* makes its patron the holder, the second returns false and leaves the
\* first patron as the holder.
C9_ExactlyOneWinner ==
    [][ \A p \in UserIds, q \in UserIds, bid \in BookIds :
          LET u == find_user_by_id(users, p)
              v == find_user_by_id(users, q)
              b == find_book_by_id(books, bid)
          IN  (p # q /\ u # 0 /\ v # 0 /\ b # 0) =>
                /\ (books[b].available /\ can_borrow(users[u])
                        /\ BorrowStep(p, bid)) =>
                       (result' = "True" /\ books'[b].borrowed_by = p)
                /\ (call = Call("borrow_book", p, bid, 0) /\ result = "True"
                        /\ BorrowStep(q, bid)) =>
                       (result' = "False" /\ books'[b].borrowed_by = p) ]_vars

\* C9 witness: the second of two eligible patrons was refused, and the item
\* is on loan to the first, whose held-set contains it.
C9_Witness ==
    /\ call.op = "borrow_book"
    /\ result = "False"
    /\ LET v == find_user_by_id(users, call.user_id)
           b == find_book_by_id(books, call.book_id)
       IN  /\ v # 0
           /\ b # 0
           /\ can_borrow(users[v])
           /\ ~books[b].available
           /\ books[b].borrowed_by # call.user_id
           /\ books[b].borrowed_date = now
           /\ LET u == find_user_by_id(users, books[b].borrowed_by)
              IN  u # 0 /\ In(call.book_id, users[u].borrowed_books)

\* C10: borrow_book returns true iff patron and item both resolve, the
\* patron can borrow and the item is available; on success the item is
\* unavailable with the patron as holder, and the id is in the patron's
\* held-set and in the patron's cross-reference entry.
C10_BorrowSuccess ==
    [][ \A uid \in UserIds, bid \in BookIds :
          BorrowStep(uid, bid) =>
            LET u == find_user_by_id(users, uid)
                b == find_book_by_id(books, bid)
            IN  /\ (result' = "True") <=>
                       (/\ \E k \in 1..Len(users) : users[k].user_id = uid
                        /\ \E k \in 1..Len(books) : books[k].book_id = bid
                        /\ can_borrow(users[u])
                        /\ books[b].available)
                /\ (result' = "True") =>
                       /\ ~books'[b].available
                       /\ books'[b].borrowed_by = uid
                       /\ In(bid, users'[u].borrowed_books)
                       /\ In(bid, borrowed_records'[uid]) ]_vars

\* C10 witness: borrow_book has just succeeded for a patron who already
\* held another item.
C10_Witness ==
    /\ call.op = "borrow_book"
    /\ result = "True"
    /\ LET u == find_user_by_id(users, call.user_id)
           b == find_book_by_id(books, call.book_id)
       IN  /\ u # 0
           /\ b # 0
           /\ books[b].borrowed_by = call.user_id
           /\ Len(users[u].borrowed_books) = 2
           /\ In(call.book_id, borrowed_records[call.user_id])

\* the step is a call of Library.return_book(user_id, book_id)
ReturnStep(user_id, book_id) ==
    call' = Call("return_book", user_id, book_id, 0) /\ now' = now

\* C11: return_book returns false, changing no state, iff the patron or the
\* item does not resolve; in every other case it returns true.
C11_ReturnResult ==
    [][ \A uid \in UserIds, bid \in BookIds :
          ReturnStep(uid, bid) =>
            LET unresolved ==
                    \/ ~\E k \in 1..Len(users) : users[k].user_id = uid
                    \/ ~\E k \in 1..Len(books) : books[k].book_id = bid
            IN  /\ (result' = "False") <=> unresolved
                /\ (result' = "True") <=> ~unresolved
                /\ unresolved =>
                       /\ books' = books
                       /\ users' = users
                       /\ borrowed_records' = borrowed_records ]_vars

\* C11 witness: return_book was refused for a patron id that is not
\* registered while the item exists and is on loan.
C11_Witness ==
    /\ call.op = "return_book"
    /\ result = "False"
    /\ ~\E k \in 1..Len(users) : users[k].user_id = call.user_id
    /\ \E b \in 1..Len(books) :
           books[b].book_id = call.book_id /\ ~books[b].available

ClaimedBonus(u) ==
    IF ~u.premium THEN 0
    ELSE CASE u.premium_level = "Silver" -> 7
           [] u.premium_level = "Gold" -> 14
           [] u.premium_level = "Platinum" -> 21

ClaimedGrace(u) == 14 + ClaimedBonus(u)

\* the late fee per day the claims state, in cents
ClaimedRate(b) == IF b.kind = "EBook" THEN 25 ELSE 50

\* C13: a held item returned after exactly the grace period, or earlier,
\* leaves the returning patron's balance unchanged; returned one day later
\* it adds the fee of exactly one day (50 physical, 25 e-book).
C13_GraceBoundary ==
    [][ \A uid \in UserIds, bid \in BookIds :
          LET u == find_user_by_id(users, uid)
              b == find_book_by_id(books, bid)
          IN  (ReturnStep(uid, bid) /\ u # 0 /\ b # 0 /\ ~books[b].available) =>
                LET d == now - books[b].borrowed_date
                    g == ClaimedGrace(users[u])
                IN  /\ d <= g =>
                           users'[u].fine_amount = users[u].fine_amount
                    /\ d = g + 1 =>
                           users'[u].fine_amount =
                               users[u].fine_amount + ClaimedRate(books[b]) ]_vars

\* C13 witness: the item was borrowed on day 0 and returned one day after
\* the grace period, and the balance is the fee of one day.
C13_Witness ==
    /\ call.op = "return_book"
    /\ result = "True"
    /\ books[1].available
    /\ now = ClaimedGrace(users[1]) + 1
    /\ users[1].fine_amount = ClaimedRate(books[1])

\* C14: a return after d days, d above the grace period, adds
\* rate * (d - (14 + bonus)) to the balance of the returning patron.
C14_LateFeeAmount ==
    [][ \A uid \in UserIds, bid \in BookIds :
          LET u == find_user_by_id(users, uid)
              b == find_book_by_id(books, bid)
          IN  (ReturnStep(uid, bid) /\ u # 0 /\ b # 0 /\ ~books[b].available) =>
                LET d == now - books[b].borrowed_date
                    g == ClaimedGrace(users[u])
                IN  d > g =>
                       users'[u].fine_amount =
                           users[u].fine_amount
                               + ClaimedRate(books[b]) * (d - g) ]_vars

\* C14 witness: a standard patron returned a physical book on day 20 that
\* was borrowed on day 0, and the balance is 3.00.
C14_Witness ==
    /\ call.op = "return_book"
    /\ result = "True"
    /\ ~users[1].premium
    /\ books[1].kind = "Book"
    /\ books[1].available
    /\ now = 20
    /\ users[1].fine_amount = 300

\* C15: the fee returned for d days is at least the fee of the same item
\* for every smaller number of days, and the fee of the e-book is exactly
\* half the fee of the physical book for the same d.
C15_FeeMonotoneAndHalf ==
    call.op = "calculate_late_fee" =>
        LET b == find_book_by_id(books, call.book_id)
            d == call.amount
        IN  /\ \A d1 \in 0..d : calculate_late_fee(books[b], d1) <= result
            /\ \A d2 \in d..MaxLateDays :
                   result <= calculate_late_fee(books[b], d2)
            /\ books[b].kind = "EBook" =>
                   2 * result = calculate_late_fee(books[1], d)
            /\ books[b].kind = "Book" =>
                   result = 2 * calculate_late_fee(books[2], d)

\* C15 witness: the fee of the e-book for an odd number of days was
\* computed and is not a whole multiple of the physical rate.
C15_Witness ==
    /\ call.op = "calculate_late_fee"
    /\ books[find_book_by_id(books, call.book_id)].kind = "EBook"
    /\ call.amount = 7
    /\ result = 175

\* the step is a call of can_borrow() on the patron with that id
CanBorrowStep(user_id) == call' = Call("can_borrow", user_id, None, 0)

\* C16: for a standard patron can_borrow() is true iff fewer than 3 items
\* are held and the balance is exactly 0, and borrow_book fails for a
\* standard patron with a positive balance or with 3 held items.
C16_StandardEligibility ==
    [][ \A k \in 1..Len(users) :
          ~users[k].premium =>
            LET held == Len(users[k].borrowed_books)
                fine == users[k].fine_amount
            IN  /\ CanBorrowStep(users[k].user_id) =>
                       ((result' = "True") <=> (held < 3 /\ fine = 0))
                /\ \A bid \in LimitBookIds :
                       (BorrowStep(users[k].user_id, bid)
                            /\ (fine > 0 \/ held = 3)) =>
                           /\ result' = "False"
                           /\ users' = users
                           /\ books' = books ]_vars

\* C16 witness: a standard patron holding two items and owing a positive
\* balance was refused an item that is available.
C16_Witness ==
    /\ call.op = "borrow_book"
    /\ result = "False"
    /\ ~users[1].premium
    /\ Len(users[1].borrowed_books) = 2
    /\ users[1].fine_amount = 100
    /\ \E b \in 1..Len(books) :
           books[b].book_id = call.book_id /\ books[b].available

\* C17: for a premium patron can_borrow() is true iff fewer than 5, 7 or 10
\* items (Silver, Gold, Platinum) are held and the balance is below 5.00,
\* and borrow_book of an available item succeeds under the same condition;
\* a Gold patron owing 5.00 cannot borrow at any held count.
C17_PremiumEligibility ==
    [][ \A k \in 1..Len(users) :
          users[k].premium =>
            LET held == Len(users[k].borrowed_books)
                fine == users[k].fine_amount
                eligible == held < ClaimedLimit(users[k]) /\ fine < 500
            IN  /\ CanBorrowStep(users[k].user_id) =>
                       ((result' = "True") <=> eligible)
                /\ \A bid \in PremiumBookIds :
                       LET b == find_book_by_id(books, bid)
                       IN  (BorrowStep(users[k].user_id, bid) /\ b # 0
                                /\ books[b].available) =>
                               ((result' = "True") <=> eligible)
                /\ (users[k].premium_level = "Gold" /\ fine = 500
                        /\ call'.op \in {"can_borrow", "borrow_book"}) =>
                       result' = "False" ]_vars

\* C17 witness: a Gold patron owing 4.99 and holding 6 items has just
\* borrowed a seventh.
C17_Witness ==
    /\ call.op = "borrow_book"
    /\ result = "True"
    /\ users[1].premium_level = "Gold"
    /\ users[1].fine_amount = 499
    /\ Len(users[1].borrowed_books) = 7
    /\ In(call.book_id, users[1].borrowed_books)

\* the order of the tiers
TierRank(level) ==
    CASE level = "Silver" -> 1
      [] level = "Gold" -> 2
      [] level = "Platinum" -> 3

\* the step is a call of upgrade_level() on the patron with that id
UpgradeStep(user_id) == call' = Call("upgrade_level", user_id, None, 0)

\* C20: upgrade_level maps Silver to Gold, Gold to Platinum and Platinum to
\* Platinum, after the call bonus_borrow_days is the bonus of the new tier
\* (7, 14, 21), and in no step does the tier, the borrow limit or the grace
\* period of a premium patron decrease.
C20_UpgradeProgression ==
    [][ \A k \in 1..Len(users) :
          users[k].premium =>
            LET old == users[k].premium_level
                new == users'[k].premium_level
            IN  /\ UpgradeStep(users[k].user_id) =>
                       /\ old = "Silver" => new = "Gold"
                       /\ old = "Gold" => new = "Platinum"
                       /\ old = "Platinum" => new = "Platinum"
                       /\ users'[k].bonus_borrow_days = ClaimedBonus(users'[k])
                /\ TierRank(new) >= TierRank(old)
                /\ ClaimedLimit(users'[k]) >= ClaimedLimit(users[k])
                /\ PremiumMaxBooks(new) >= PremiumMaxBooks(old)
                /\ 14 + users'[k].bonus_borrow_days
                       >= 14 + users[k].bonus_borrow_days ]_vars

\* C20 witness: upgrade_level was called at the ceiling, with the bonus of
\* Platinum in place, on a patron holding more items than Gold allows.
C20_Witness ==
    /\ call.op = "upgrade_level"
    /\ result = "False"
    /\ users[1].premium_level = "Platinum"
    /\ users[1].bonus_borrow_days = 21
    /\ Len(users[1].borrowed_books) > 7

\* the genres the claim lists as accepted
ClaimedGenres ==
    {"Fiction", "Non-Fiction", "Science", "History", "Programming", "General"}

\* C18: the id setter given a non-positive or non-integer value, set_genre
\* given a value outside the six genres, add_fine given an amount <= 0 and
\* pay_fine given an amount <= 0 or above the balance each leave the item
\* and the patron as they were, and pay_fine then returns false.
C18_RejectionKeepsState ==
    [][ /\ call'.op = "Book.book_id" =>
              LET v == call'.amount
              IN  (v.type \notin {"int", "bool"} \/ v.val <= 0) =>
                      (books' = books /\ users' = users)
        /\ call'.op = "Book.set_genre" =>
              (call'.amount \notin ClaimedGenres =>
                  (books' = books /\ users' = users))
        /\ call'.op = "add_fine" =>
              (call'.amount <= 0 => (books' = books /\ users' = users))
        /\ call'.op = "pay_fine" =>
              ((call'.amount <= 0 \/ call'.amount > users[1].fine_amount) =>
                  /\ result' = "False"
                  /\ books' = books
                  /\ users' = users) ]_vars

\* C18 witness: the id setter has just refused a float while the item
\* carries an id and a genre that earlier calls of the setters gave it.
C18_Witness ==
    /\ call.op = "Book.book_id"
    /\ call.amount.type = "float"
    /\ books[1].book_id = 3
    /\ books[1].genre = "Science"
    /\ users[1].fine_amount = 100

\* the steps that call User.borrow_book and User.return_book directly
HoldStep(book_id) ==
    call' = Call("User.borrow_book", users[1].user_id, book_id, 0)

UnholdStep(book_id) ==
    call' = Call("User.return_book", users[1].user_id, book_id, 0)

\* C19: User.borrow_book returns true exactly when the id was absent and
\* then appends it, leaves the held-set as it is when the id is present (so
\* a second call changes nothing), no held-set contains an id twice, and
\* User.return_book returns true exactly when the id was present and leaves
\* the held-set without it.
C19_HoldIdempotence ==
    [][ LET held == users[1].borrowed_books
            after == users'[1].borrowed_books
        IN  /\ \A bid \in HoldIds :
                   /\ HoldStep(bid) =>
                          /\ (result' = "True") <=> ~In(bid, held)
                          /\ In(bid, held) => after = held
                          /\ ~In(bid, held) => after = Append(held, bid)
                          /\ UserBorrowBook(users'[1], bid)[2] = users'[1]
                   /\ UnholdStep(bid) =>
                          /\ (result' = "True") <=> In(bid, held)
                          /\ ~In(bid, after)
                          /\ \A x \in HoldIds \ {bid} :
                                 In(x, after) <=> In(x, held)
                   /\ Count(bid, after) <= 1 ]_vars

\* C19 witness: User.borrow_book was called a second time with an id the
\* patron holds together with another one, and returned false.
C19_Witness ==
    /\ call.op = "User.borrow_book"
    /\ result = "False"
    /\ Len(users[1].borrowed_books) = 2
    /\ users[1].borrowed_books[1] = call.book_id

\* C21: no step changes the id of an item that exists before the step.
C21_ItemIdImmutable ==
    [][ \A k \in 1..Len(books) :
            k \in 1..Len(books') => books'[k].book_id = books[k].book_id ]_vars

\* C22: no change a caller makes to a collection obtained from
\* Library.books, Library.users, Library.get_user_borrowed_books or
\* User.get_borrowed_books changes the items, the patrons or the
\* cross-reference map of the Library.
C22_SnapshotIsolation ==
    [][ call'.op \in Accessors =>
            /\ books' = books
            /\ users' = users
            /\ borrowed_records' = borrowed_records ]_vars

\* a record the claim calls valid: every field present, id and year
\* numeric, title not empty, year within 1000..2100
ClaimedValid(row) ==
    /\ \A f \in DOMAIN row : row[f].k # "absent"
    /\ row.id.k = "num"
    /\ row.year.k = "num"
    /\ row.title.k # "blank"
    /\ row.year.v >= 1000
    /\ row.year.v <= 2100

RECURSIVE ValidData(_)
ValidData(rows) ==
    IF rows = <<>> THEN <<>>
    ELSE IF ClaimedValid(Head(rows))
         THEN <<BookData(Head(rows))>> \o ValidData(Tail(rows))
         ELSE ValidData(Tail(rows))

\* C23: load_books_from_csv returns exactly the valid records of the file,
\* in order, whatever bad records stand among them.
C23_PerRecordSkip ==
    call.op = "load_books_from_csv" => result = ValidData(call.amount)

\* C24: of two interleaved borrow_book calls for one available item at
\* most one returns true, and when both have returned exactly one patron's
\* held-set contains the item, that patron being its holder.
C24_OneWinnerInterleaved ==
    /\ ~(result[1] = "True" /\ result[2] = "True")
    /\ (\A t \in Threads : call[t].pc = "done") =>
           /\ Cardinality(HoldersOf(1)) = 1
           /\ \A k \in HoldersOf(1) : books[1].borrowed_by = users[k].user_id

\* C25: return_book called for a registered patron who is not the holder of
\* an item on loan leaves the item unavailable, with the same holder and
\* the same checkout day.
C25_OnlyHolderReturns ==
    [][ \A uid \in UserIds, bid \in BookIds :
          LET u == find_user_by_id(users, uid)
              b == find_book_by_id(books, bid)
          IN  (ReturnStep(uid, bid) /\ u # 0 /\ b # 0 /\ ~books[b].available
                   /\ books[b].borrowed_by # uid) =>
                  /\ ~books'[b].available
                  /\ books'[b].borrowed_by = books[b].borrowed_by
                  /\ books'[b].borrowed_date = books[b].borrowed_date ]_vars

\* C26: return_book raises the fine balance of a patron only if that
\* patron is the one whose borrow_book put the returned item on loan.
C26_FeeToBorrower ==
    [][ \A uid \in UserIds, bid \in BookIds :
          ReturnStep(uid, bid) =>
            \A k \in 1..Len(users) :
                users'[k].fine_amount > users[k].fine_amount =>
                    LET b == find_book_by_id(books, bid)
                    IN  /\ b # 0
                        /\ ~books[b].available
                        /\ books[b].borrowed_by = users[k].user_id ]_vars

\* C27: in every reachable state, a borrow_book(p, i) that succeeds,
\* followed at once (no day passing) by return_book(p, i), gives back the
\* items, the patrons and the cross-reference map of before the borrow.
C27_BorrowReturnRoundTrip ==
    \A uid \in UserIds, bid \in BookIds :
        LET r == borrow_book(LibState, uid, bid, now)
        IN  r.ok => return_book(r.st, uid, bid, now).st = LibState

\* C28: register_user leaves every item, every patron registered before
\* the call and every cross-reference entry that exists before the call
\* unchanged.
C28_RegistrationPreservesLoans ==
    [][ call'.op = "register_user" =>
            /\ books' = books
            /\ \A k \in 1..Len(users) : users'[k] = users[k]
            /\ \A uid \in DOMAIN borrowed_records :
                   borrowed_records'[uid] = borrowed_records[uid] ]_vars

\* the positions of the entries added before any other entry with their id
FirstAdded(seq, ids) ==
    {k \in 1..Len(seq) : \A j \in 1..(k - 1) : ids[j] # ids[k]}

BookIdsOf(bs) == [k \in 1..Len(bs) |-> bs[k].book_id]

UserIdsOf(us) == [k \in 1..Len(us) |-> us[k].user_id]

\* C30: no step changes an item or a patron that was added after another
\* one with the same id, and a borrow_book or return_book call changes at
\* most the first-added item with the id it names and the first-added
\* patron with the id it names.
C30_FirstMatchWins ==
    [][ /\ \A k \in 1..Len(books) :
               k \notin FirstAdded(books, BookIdsOf(books)) =>
                   books'[k] = books[k]
        /\ \A k \in 1..Len(users) :
               k \notin FirstAdded(users, UserIdsOf(users)) =>
                   users'[k] = users[k]
        /\ \A uid \in UserIds, bid \in BookIds :
               (BorrowStep(uid, bid) \/ ReturnStep(uid, bid)) =>
                   /\ \A k \in 1..Len(books) :
                          books'[k] # books[k] =>
                              /\ books[k].book_id = bid
                              /\ k \in FirstAdded(books, BookIdsOf(books))
                   /\ \A k \in 1..Len(users) :
                          users'[k] # users[k] =>
                              /\ users[k].user_id = uid
                              /\ k \in FirstAdded(users, UserIdsOf(users)) ]_vars

\* C30 witness: borrow_book has just put the first-added item with id 1 on
\* loan to the first-added patron of the caller's id, while a second item
\* and a second patron with the same ids exist and are untouched.
C30_Witness ==
    /\ call.op = "borrow_book"
    /\ result = "True"
    /\ Len(books) = 3
    /\ Len(users) = 3
    /\ call.book_id = 1
    /\ call.user_id = 1
    /\ books[3].book_id = 1
    /\ users[3].user_id = 1
    /\ ~books[1].available
    /\ books[3].available
    /\ In(1, users[1].borrowed_books)
    /\ users[3].borrowed_books = <<>>

\* C29: while a standard patron's balance is positive every borrow_book by
\* that patron returns false; pay_fine with the whole current balance is
\* accepted and leaves the balance at 0; with a balance of 0 and fewer than
\* 3 items held, borrow_book of an available item succeeds.
C29_FinesBlockPaymentUnblocks ==
    [][ \A k \in 1..Len(users) :
          ~users[k].premium =>
            LET uid == users[k].user_id
                fine == users[k].fine_amount
                held == Len(users[k].borrowed_books)
            IN  /\ \A bid \in BlockBookIds :
                       LET b == find_book_by_id(books, bid)
                       IN  /\ (BorrowStep(uid, bid) /\ fine > 0) =>
                                  result' = "False"
                           /\ (BorrowStep(uid, bid) /\ fine = 0 /\ held < 3
                                   /\ b # 0 /\ books[b].available) =>
                                  result' = "True"
                /\ (fine > 0 /\ call' = Call("pay_fine", uid, None, fine)
                        /\ now' = now) =>
                       /\ result' = "True"
                       /\ users'[k].fine_amount = 0 ]_vars

\* C29 witness: a balance made of the late fees of a book and an e-book
\* has just been paid in full by a patron who holds fewer than 3 items.
C29_Witness ==
    /\ call.op = "pay_fine"
    /\ result = "True"
    /\ call.amount = 75
    /\ users[1].fine_amount = 0
    /\ Len(users[1].borrowed_books) < 3

====
